---- MODULE Spec2Model ----
(***************************************************************************)
(* Model of the copilot-usage tool (src/tools/copilot-usage.ts).           *)
(*                                                                         *)
(* One invocation of the tool's execute() is a chain of synchronous        *)
(* segments separated by awaits: every logMessage() call awaits the        *)
(* logging collaborator (when there is one), and fetchData() awaits the    *)
(* upstream HTTP response.  Each action below is one such segment, from    *)
(* the point where the invocation resumes to its next await.               *)
(*                                                                         *)
(* Text (messages, URLs, the returned block) is a sequence of tokens; the  *)
(* token NL is a line break.  JavaScript's undefined is the token          *)
(* Undefined.  Percentages are held in hundredths of a percent.            *)
(***************************************************************************)
EXTENDS Integers, Sequences, FiniteSets, TLC

\* ------------------------------------------------------------------ bounds

\* Largest entitlement / remaining count the upstream reports.
MaxCount == 1

\* ------------------------------------------------------------- JS values

Undefined == "undefined"

NL == "\n"

\* JavaScript truthiness of an optional string (undefined and "" are falsy).
Truthy(s) == s # Undefined /\ s # ""

Digits == <<"0", "1", "2", "3", "4", "5", "6", "7", "8", "9">>

RECURSIVE NatToString(_)
\* Decimal digits of a natural number, as template literals print it.
NatToString(n) ==
    IF n < 10 THEN <<Digits[n + 1]>>
    ELSE NatToString(n \div 10) \o <<Digits[(n % 10) + 1]>>

\* `${n}` for an integer n.
NumberToString(n) ==
    IF n < 0 THEN <<"-">> \o NatToString(-n) ELSE NatToString(n)

\* Number.prototype.toFixed(2) of a value held in hundredths.
ToFixed2(h) ==
    LET a == IF h < 0 THEN -h ELSE h
    IN  (IF h < 0 THEN <<"-">> ELSE <<>>)
        \o NatToString(a \div 100)
        \o <<".", Digits[((a % 100) \div 10) + 1], Digits[(a % 10) + 1]>>

\* --------------------------------------------------- capitalizePlanName

UpperTable == [c \in {"p", "i", "q"} |->
                 CASE c = "p" -> "P" [] c = "i" -> "I" [] c = "q" -> "Q"]

\* String.prototype.toUpperCase on one character.
ToUpperCase(c) == IF c \in DOMAIN UpperTable THEN UpperTable[c] ELSE c

RECURSIVE Split(_, _)
\* s.split(sep): the words of s between separators (never an empty list).
Split(s, sep) ==
    IF \A i \in 1..Len(s) : s[i] # sep THEN <<s>>
    ELSE LET k == CHOOSE i \in 1..Len(s) :
                    s[i] = sep /\ \A j \in 1..(i - 1) : s[j] # sep
         IN  <<SubSeq(s, 1, k - 1)>> \o Split(SubSeq(s, k + 1, Len(s)), sep)

\* word.charAt(0).toUpperCase() + word.slice(1)
CapitalizeWord(w) ==
    IF Len(w) = 0 THEN w ELSE <<ToUpperCase(w[1])>> \o SubSeq(w, 2, Len(w))

RECURSIVE Join(_, _)
\* words.join(sep)
Join(ws, sep) ==
    IF Len(ws) = 0 THEN <<>>
    ELSE IF Len(ws) = 1 THEN ws[1]
    ELSE ws[1] \o <<sep>> \o Join(Tail(ws), sep)

capitalizePlanName(plan) ==
    LET words == Split(plan, "_")
    IN  Join([i \in 1..Len(words) |-> CapitalizeWord(words[i])], " ")

\* ------------------------------------------------------------ getApiUrl

PublicApiUrl == <<"https:", "//", "api.github.com", "/copilot_internal/user">>

\* new URL(`https://${h}`) on the host strings of the model: whether it
\* parses, and the hostname and port it yields.
HostTable ==
    [h \in {"ghe.example.com", "ghe.example.com:8443", "not a host"} |->
        CASE h = "ghe.example.com" ->
               [ok |-> TRUE, protocol |-> "https:", hostname |-> "ghe.example.com", port |-> ""]
          [] h = "ghe.example.com:8443" ->
               [ok |-> TRUE, protocol |-> "https:", hostname |-> "ghe.example.com", port |-> "8443"]
          [] h = "not a host" ->
               [ok |-> FALSE, protocol |-> "", hostname |-> "", port |-> ""]]

\* Whether getApiUrl(enterpriseUrl) throws (new URL rejects the host).
ApiUrlThrows(enterpriseUrl) ==
    Truthy(enterpriseUrl) /\ ~HostTable[enterpriseUrl].ok

getApiUrl(enterpriseUrl) ==
    IF ~Truthy(enterpriseUrl) THEN PublicApiUrl
    ELSE LET parsedUrl == HostTable[enterpriseUrl]
         IN  <<parsedUrl.protocol, "//", "api.", parsedUrl.hostname>>
             \o (IF parsedUrl.port # "" THEN <<":", parsedUrl.port>> ELSE <<>>)
             \o <<"/copilot_internal/user">>

\* new URL(url) inside fetchData, on a URL getApiUrl built.
ParseUrl(url) ==
    LET n == Len(url)
        hasPort == n >= 4 /\ url[n - 2] = ":"
    IN  [protocol |-> url[1],
         hostname |-> SubSeq(url, 3, IF hasPort THEN n - 3 ELSE n - 1),
         port     |-> IF hasPort THEN url[n - 1] ELSE "",
         pathname |-> url[n]]

\* The request fetchData issues.
RequestOptions(url, token) ==
    LET parsedUrl == ParseUrl(url)
    IN  [protocol      |-> parsedUrl.protocol,
         hostname      |-> parsedUrl.hostname,
         port          |-> parsedUrl.port,
         path          |-> parsedUrl.pathname,
         method        |-> "GET",
         authorization |-> <<"Bearer ", token>>,
         accept        |-> "application/json"]

\* ------------------------------------------------------------- thrown values

\* new Error(msg), or any Error subclass the runtime raises with that message.
MkError(msg) == [isError |-> TRUE, message |-> msg, str |-> <<"Error: ">> \o msg]

\* A thrown value that is not an Error; str is what String(value) yields.
MkThrown(text) == [isError |-> FALSE, message |-> <<Undefined>>, str |-> text]

NoError == [isError |-> FALSE, message |-> <<>>, str |-> <<>>]

\* Mutant: the message is read off the caught value without the instanceof test.
ErrorMessageOfErrorOnly(error) == error.message

\* error instanceof Error ? error.message : String(error)
ErrorMessage(error) == IF error.isError THEN error.message ELSE error.str

\* The text execute() returns from its catch block.
ErrorText(errorMessage) ==
    <<"# Copilot Usage Error", NL, NL, "Error: ">> \o errorMessage

\* ---------------------------------------------------------- credential file

EnterpriseSecret == "ent-secret"
PublicSecret == "pub-secret"

NoEntry == [present |-> FALSE, access |-> Undefined, enterpriseUrl |-> Undefined]

\* What authData['github-copilot-enterprise'] can hold.
EnterpriseEntries ==
    {NoEntry}
    \cup [present : {TRUE}, access : {Undefined, ""}, enterpriseUrl : {Undefined}]
    \cup [present : {TRUE}, access : {EnterpriseSecret},
          enterpriseUrl : {Undefined} \cup DOMAIN HostTable]

\* What authData['github-copilot'] can hold.
PublicEntries ==
    {NoEntry}
    \cup [present : {TRUE}, access : {""}, enterpriseUrl : {Undefined}]
    \cup [present : {TRUE}, access : {PublicSecret},
          enterpriseUrl : {Undefined, "ghe.example.com"}]

\* The states of ~/.local/share/opencode/auth.json: missing, not JSON, the
\* JSON value null, a JSON value that is no object, or an object.
AuthFiles ==
    [exists : {FALSE}, json : {"none"}, enterprise : {NoEntry}, public : {NoEntry}]
    \cup [exists : {TRUE}, json : {"invalid", "null", "scalar"},
          enterprise : {NoEntry}, public : {NoEntry}]
    \cup [exists : {TRUE}, json : {"object"},
          enterprise : EnterpriseEntries, public : PublicEntries]

\* process.env.GITHUB_TOKEN
EnvTokens == {Undefined, "", "env-secret"}

\* args.authSource
AuthSources == {Undefined, "enterprise", "public"}

NoAuth == [token |-> Undefined, enterpriseUrl |-> Undefined, source |-> "none"]

\* enterpriseAuth && enterpriseAuth.access
hasEnterprise(file) == file.enterprise.present /\ Truthy(file.enterprise.access)

\* publicAuth && publicAuth.access
hasPublic(file) == file.public.present /\ Truthy(file.public.access)

\* Mutant: the preference is honoured even when only one entry is present.
SelectSourceHonoringPreference(preferredSource, hasE, hasP) ==
    IF preferredSource = "enterprise" THEN "enterprise"
    ELSE IF preferredSource = "public" THEN "public"
    ELSE IF hasE /\ ~hasP THEN "enterprise" ELSE "public"

\* Mutant: the organizational entry is taken whenever it is present.
SelectSourceEnterpriseFirst(preferredSource, hasE, hasP) ==
    IF hasE THEN "enterprise" ELSE "public"

\* The source getAuthToken picks among the entries that are present.
SelectSource(preferredSource, hasE, hasP) ==
    IF hasE /\ hasP
    THEN (IF preferredSource = "enterprise" THEN "enterprise" ELSE "public")
    ELSE (IF hasE THEN "enterprise" ELSE "public")

\* The record getAuthToken returns for the selected entry.
SelectedAuth(file, source) ==
    LET selectedAuth == IF source = "enterprise" THEN file.enterprise ELSE file.public
    IN  [token         |-> selectedAuth.access,
         enterpriseUrl |-> selectedAuth.enterpriseUrl,
         source        |-> source]

\* The info message of the selection.
SelectionMessage(source, both) ==
    <<"Using ", source,
      IF both THEN " authentication (both available, default: public)"
              ELSE " authentication (only one available)">>

MsgAuthMissing ==
    <<"Authentication not found. Set GITHUB_TOKEN env var or authenticate with OpenCode">>

MsgAuthNotConfigured == <<"GitHub Copilot authentication not found in auth.json">>

MsgAuthFileSyntax == <<"JSON Parse error: Unexpected identifier">>

MsgAuthFileNull == <<"null is not an object (evaluating 'authData['github-copilot-enterprise']')">>

\* The file-based part of getAuthToken: the error it throws, or the record
\* it returns with the message it logs.
ReadAuthFile(file, preferredSource) ==
    LET source == SelectSource(preferredSource, hasEnterprise(file), hasPublic(file))
        fail(e) == [ok |-> FALSE, err |-> e, auth |-> NoAuth, message |-> <<>>]
    IN  IF ~file.exists THEN fail(MkError(MsgAuthMissing))
        ELSE IF file.json = "invalid" THEN fail(MkError(MsgAuthFileSyntax))
        ELSE IF file.json = "null" THEN fail(MkError(MsgAuthFileNull))
        ELSE IF ~hasEnterprise(file) /\ ~hasPublic(file)
             THEN fail(MkError(MsgAuthNotConfigured))
        ELSE [ok      |-> TRUE,
              err     |-> NoError,
              auth    |-> SelectedAuth(file, source),
              message |-> SelectionMessage(source, hasEnterprise(file) /\ hasPublic(file))]

\* The record getAuthToken returns for a token of the environment.
EnvAuth(envTok) == [token |-> envTok, enterpriseUrl |-> Undefined, source |-> "env"]

\* ------------------------------------------------------- upstream responses

\* res.statusCode >= 200 && res.statusCode < 300
StatusOkMin == 200
StatusOkEnd == 300

\* entitlements.copilot_plan values (character sequences).
RawPlans == {<<>>, <<"p">>, <<"i", "_", "p">>}

\* percent_remaining values, in hundredths of a percent.
PercentRemainingValues == {0, 2500}

Quotas ==
    [unlimited : BOOLEAN, entitlement : 0..MaxCount, remaining : 0..MaxCount,
     percent_remaining : PercentRemainingValues]

NoQuota == [unlimited |-> FALSE, entitlement |-> 0, remaining |-> 0, percent_remaining |-> 0]

\* Response bodies: text that is not JSON, the JSON value null, an object
\* without copilot_plan, and objects with a plan whose quota_snapshots is
\* missing ("none"), lacks premium_interactions ("empty") or carries it.
Bodies ==
    [json : {"invalid", "null"}, hasPlan : {FALSE}, plan : {<<>>},
     snapshots : {"none"}, quota : {NoQuota}]
    \cup [json : {"object"}, hasPlan : {FALSE}, plan : {<<>>},
          snapshots : {"none"}, quota : {NoQuota}]
    \cup [json : {"object"}, hasPlan : {TRUE}, plan : RawPlans,
          snapshots : {"none", "empty"}, quota : {NoQuota}]
    \cup [json : {"object"}, hasPlan : {TRUE}, plan : RawPlans,
          snapshots : {"premium"}, quota : Quotas]

NoBody == [json |-> "invalid", hasPlan |-> FALSE, plan |-> <<>>,
           snapshots |-> "none", quota |-> NoQuota]

\* What the request can end with: an 'error' event carrying an Error or
\* some other value, or a response with a status and a body.
Responses ==
    [kind : {"error"}, err : {MkError(<<"connect ECONNREFUSED">>), MkThrown(<<"socket closed">>)},
     status : {0}, statusMessage : {""}, body : {NoBody}]
    \cup [kind : {"response"}, err : {NoError}, status : {200},
          statusMessage : {"OK"}, body : Bodies]
    \cup [kind : {"response"}, err : {NoError}, status : {199, 299, 300},
          statusMessage : {"Other"}, body : {NoBody}]
    \cup [kind : {"response"}, err : {NoError}, status : {401},
          statusMessage : {"Unauthorized"}, body : {NoBody}]

NoResponse == [kind |-> "none", err |-> NoError, status |-> 0, statusMessage |-> "",
               body |-> NoBody]

\* fetchData's promise: resolved with the body on a 2xx status, rejected
\* with the transport's error or with Error(`HTTP ${status}: ${text}`).
fetchData(resp) ==
    IF resp.kind = "error"
    THEN [resolved |-> FALSE, err |-> resp.err, data |-> NoBody]
    ELSE IF resp.status # 0 /\ resp.status >= StatusOkMin /\ resp.status < StatusOkEnd
    THEN [resolved |-> TRUE, err |-> NoError, data |-> resp.body]
    ELSE [resolved |-> FALSE,
          err |-> MkError(<<"HTTP ">> \o NumberToString(resp.status)
                          \o <<": ", resp.statusMessage>>),
          data |-> NoBody]

NoResult == [plan |-> <<>>, used |-> 0, total |-> 0, percentUsed |-> 0, unlimited |-> FALSE]

MsgBodySyntax == <<"JSON Parse error: Unable to parse JSON string">>

MsgBodyNull == <<"null is not an object (evaluating 'entitlements.copilot_plan')">>

MsgPlanUndefined == <<"undefined is not an object (evaluating 'plan.split')">>

\* fetchUsageData after the response text arrived: JSON.parse, the plan
\* name, the premium_interactions lookup and the usage arithmetic.
ParseUsage(body) ==
    LET planName == capitalizePlanName(body.plan)
        quota == body.quota
        fail(e) == [ok |-> FALSE, err |-> e, result |-> NoResult]
    IN  IF body.json = "invalid" THEN fail(MkError(MsgBodySyntax))
        ELSE IF body.json = "null" THEN fail(MkError(MsgBodyNull))
        ELSE IF ~body.hasPlan THEN fail(MkError(MsgPlanUndefined))
        ELSE IF body.snapshots # "premium"
             THEN fail(MkError(<<"Premium requests not available for ">>
                               \o planName \o <<" plan">>))
        ELSE IF quota.unlimited
             THEN [ok |-> TRUE, err |-> NoError,
                   result |-> [plan |-> planName, used |-> 0, total |-> 0,
                               percentUsed |-> 0, unlimited |-> TRUE]]
        ELSE [ok |-> TRUE, err |-> NoError,
              result |-> [plan        |-> planName,
                          used        |-> quota.entitlement - quota.remaining,
                          total       |-> quota.entitlement,
                          percentUsed |-> 10000 - quota.percent_remaining,
                          unlimited   |-> FALSE]]

\* Mutant: the unlimited flag is not consulted.
formatMarkdownNumbersOnly(result) ==
    <<"# Copilot ">> \o result.plan \o <<" Usage", NL, NL, "Premium requests: ">>
    \o NumberToString(result.used) \o <<"/">> \o NumberToString(result.total)
    \o <<" (">> \o ToFixed2(result.percentUsed) \o <<"%)">>

formatMarkdown(result) ==
    IF result.unlimited
    THEN <<"# Copilot ">> \o result.plan \o <<" Usage", NL, NL, "Premium requests: unlimited">>
    ELSE <<"# Copilot ">> \o result.plan \o <<" Usage", NL, NL, "Premium requests: ">>
         \o NumberToString(result.used) \o <<"/">> \o NumberToString(result.total)
         \o <<" (">> \o ToFixed2(result.percentUsed) \o <<"%)">>

\* The lines of a text: its tokens between line breaks.
Lines(text) == Split(text, NL)

\* ------------------------------------------------------------------ state

VARIABLES
    envToken,     \* process.env.GITHUB_TOKEN
    authFile,     \* the credential file on disk
    upstream,     \* what the upstream answers (NoResponse until it answered)
    authSource,   \* args.authSource of the running invocation
    hasLogger,    \* whether context.client.app.log exists
    pc,           \* where the invocation resumes
    sinkPending,  \* a logMessage call awaits the logging collaborator
    sinkFailed,   \* a call to the collaborator threw or rejected
    emitted,      \* the logMessage calls made, in order
    sink,         \* the calls that reached the collaborator, in order
    auth,         \* what getAuthToken returned
    apiUrl,       \* what getApiUrl returned
    requests,     \* the HTTP requests issued
    result,       \* what fetchUsageData returned
    caught,       \* the value execute() caught
    output,       \* the text execute() returned
    stages,       \* the stages entered, in order
    fileChecked,  \* fs.existsSync was called
    fileRead,     \* fs.readFileSync was called
    prev          \* a previous invocation with the same inputs and no logger

vars == <<envToken, authFile, upstream, authSource, hasLogger, pc, sinkPending,
          sinkFailed, emitted, sink, auth, apiUrl, requests, result, caught,
          output, stages, fileChecked, fileRead, prev>>

world == <<envToken, authFile>>

NoPrev == [set |-> FALSE, output |-> <<>>, auth |-> NoAuth, apiUrl |-> <<>>,
           requests |-> <<>>]

Init ==
    /\ envToken \in EnvTokens
    /\ authFile \in AuthFiles
    /\ upstream = NoResponse
    /\ authSource = Undefined
    /\ hasLogger = FALSE
    /\ pc = "idle"
    /\ sinkPending = FALSE
    /\ sinkFailed = FALSE
    /\ emitted = <<>>
    /\ sink = <<>>
    /\ auth = NoAuth
    /\ apiUrl = <<>>
    /\ requests = <<>>
    /\ result = NoResult
    /\ caught = NoError
    /\ output = <<>>
    /\ stages = <<>>
    /\ fileChecked = FALSE
    /\ fileRead = FALSE
    /\ prev = NoPrev

\* ------------------------------------------------------------- logMessage

\* Mutant: logMessage without its try/catch, a rejection reaches execute()'s catch.
AfterLogPropagating(outcome, cont) == IF outcome = "rejected" THEN "returnErr" ELSE cont

\* Where the caller resumes once the collaborator's promise settled: the
\* try/catch of logMessage swallows a rejection (and a synchronous throw,
\* which the await inside the try turns into the same path).
AfterLog(outcome, cont) == cont

\* logMessage(context, level, message): the call is recorded; with a
\* collaborator it is handed on and awaited, without one it returns at once.
\* em and sk are the logs the call appends to, cont where the caller resumes.
logMessage(lg, em, sk, level, message, cont) ==
    LET event == [level |-> level, message |-> message]
    IN  /\ emitted' = Append(em, event)
        /\ sink' = IF lg THEN Append(sk, event) ELSE sk
        /\ sinkPending' = lg
        /\ pc' = cont

\* The collaborator's promise settles.
SinkSettle(outcome) ==
    /\ sinkPending
    /\ sinkPending' = FALSE
    /\ sinkFailed' = (sinkFailed \/ outcome = "rejected")
    /\ pc' = AfterLog(outcome, pc)
    /\ UNCHANGED <<world, upstream, authSource, hasLogger, emitted, sink, auth, apiUrl,
                   requests, result, caught, output, stages, fileChecked, fileRead, prev>>

\* The catch block of execute(): the value is kept and the error event logged.
Catch(error) ==
    /\ caught' = error
    /\ logMessage(hasLogger, emitted, sink, "error", <<"Failed to fetch usage data">>,
                  "returnErr")

\* ---------------------------------------------------------------- execute

\* The host invokes the tool.  An invocation that repeats the argument of a
\* previous one that ran without a logging collaborator is compared with it:
\* the upstream then answers as it did before.
Execute(source, lg) ==
    /\ pc \in {"idle", "done"}
    /\ LET rerun == pc = "done" /\ source = authSource
       IN  /\ prev' = IF rerun /\ ~hasLogger
                      THEN [set |-> TRUE, output |-> output, auth |-> auth,
                            apiUrl |-> apiUrl, requests |-> requests]
                      ELSE IF rerun THEN prev ELSE NoPrev
           /\ upstream' = IF rerun /\ prev'.set THEN upstream ELSE NoResponse
    /\ authSource' = source
    /\ hasLogger' = lg
    /\ sinkFailed' = FALSE
    /\ auth' = NoAuth
    /\ apiUrl' = <<>>
    /\ requests' = <<>>
    /\ result' = NoResult
    /\ caught' = NoError
    /\ output' = <<>>
    /\ stages' = <<>>
    /\ fileChecked' = FALSE
    /\ fileRead' = FALSE
    /\ logMessage(lg, <<>>, <<>>, "debug", <<"Executing copilot-usage tool">>, "getAuthToken")
    /\ UNCHANGED world

\* fetchUsageData calls getAuthToken, which logs first.
GetAuthToken ==
    /\ pc = "getAuthToken" /\ ~sinkPending
    /\ logMessage(hasLogger, emitted, sink, "debug", <<"Getting authentication token">>,
                  "resolve")
    /\ UNCHANGED <<world, upstream, authSource, hasLogger, sinkFailed, auth, apiUrl,
                   requests, result, caught, output, stages, fileChecked, fileRead, prev>>

\* Mutant: the credential file is consulted first, the environment second.
ResolveEnvAfterFile ==
    /\ pc = "resolve" /\ ~sinkPending
    /\ Truthy(envToken)
    /\ stages' = Append(stages, "resolve")
    /\ fileChecked' = TRUE
    /\ fileRead' = authFile.exists
    /\ LET r == ReadAuthFile(authFile, authSource)
       IN  IF r.ok
           THEN /\ auth' = r.auth
                /\ logMessage(hasLogger, emitted, sink, "info", r.message, "fetchUsageData")
           ELSE /\ auth' = EnvAuth(envToken)
                /\ logMessage(hasLogger, emitted, sink, "info",
                              <<"Using token from GITHUB_TOKEN environment variable">>,
                              "fetchUsageData")
    /\ UNCHANGED <<world, upstream, authSource, hasLogger, sinkFailed, apiUrl, requests,
                   result, caught, output, prev>>

\* getAuthToken with a truthy GITHUB_TOKEN.
ResolveEnv ==
    /\ pc = "resolve" /\ ~sinkPending
    /\ Truthy(envToken)
    /\ stages' = Append(stages, "resolve")
    /\ auth' = EnvAuth(envToken)
    /\ logMessage(hasLogger, emitted, sink, "info",
                  <<"Using token from GITHUB_TOKEN environment variable">>, "fetchUsageData")
    /\ UNCHANGED <<world, upstream, authSource, hasLogger, sinkFailed, apiUrl, requests,
                   result, caught, output, fileChecked, fileRead, prev>>

\* getAuthToken without one: the credential file decides.
ResolveFile ==
    /\ pc = "resolve" /\ ~sinkPending
    /\ ~Truthy(envToken)
    /\ stages' = Append(stages, "resolve")
    /\ fileChecked' = TRUE
    /\ fileRead' = authFile.exists
    /\ LET r == ReadAuthFile(authFile, authSource)
       IN  IF r.ok
           THEN /\ auth' = r.auth
                /\ logMessage(hasLogger, emitted, sink, "info", r.message, "fetchUsageData")
                /\ UNCHANGED caught
           ELSE /\ Catch(r.err)
                /\ UNCHANGED auth
    /\ UNCHANGED <<world, upstream, authSource, hasLogger, sinkFailed, apiUrl, requests,
                   result, output, prev>>

\* Back in fetchUsageData: the debug event before the request.
FetchUsageData ==
    /\ pc = "fetchUsageData" /\ ~sinkPending
    /\ logMessage(hasLogger, emitted, sink, "debug", <<"Fetching usage data">>, "request")
    /\ UNCHANGED <<world, upstream, authSource, hasLogger, sinkFailed, auth, apiUrl,
                   requests, result, caught, output, stages, fileChecked, fileRead, prev>>

\* Mutant: a host that does not parse falls back to the public endpoint.
RequestWithFallback ==
    /\ pc = "request" /\ ~sinkPending
    /\ stages' = stages \o <<"build", "fetch">>
    /\ apiUrl' = IF ApiUrlThrows(auth.enterpriseUrl) THEN PublicApiUrl
                 ELSE getApiUrl(auth.enterpriseUrl)
    /\ requests' = Append(requests, RequestOptions(apiUrl', auth.token))
    /\ pc' = "awaitHttp"
    /\ UNCHANGED <<caught, emitted, sink, sinkPending>>
    /\ UNCHANGED <<world, upstream, authSource, hasLogger, sinkFailed, auth, result,
                   output, fileChecked, fileRead, prev>>

\* getApiUrl, then fetchData issues the request and awaits its end.
Request ==
    /\ pc = "request" /\ ~sinkPending
    /\ IF ApiUrlThrows(auth.enterpriseUrl)
       THEN /\ stages' = Append(stages, "build")
            /\ Catch(MkError(<<"Invalid URL">>))
            /\ UNCHANGED <<apiUrl, requests>>
       ELSE /\ stages' = stages \o <<"build", "fetch">>
            /\ apiUrl' = getApiUrl(auth.enterpriseUrl)
            /\ requests' = Append(requests, RequestOptions(apiUrl', auth.token))
            /\ pc' = "awaitHttp"
            /\ UNCHANGED <<caught, emitted, sink, sinkPending>>
    /\ UNCHANGED <<world, upstream, authSource, hasLogger, sinkFailed, auth, result,
                   output, fileChecked, fileRead, prev>>

\* What the upstream can answer now.
Answers == IF upstream = NoResponse THEN Responses ELSE {upstream}

\* The request ends with resp; fetchUsageData parses and normalises.
HttpComplete(resp) ==
    /\ pc = "awaitHttp"
    /\ resp \in Answers
    /\ upstream' = resp
    /\ LET f == fetchData(resp)
           u == ParseUsage(f.data)
       IN  IF ~f.resolved
           THEN Catch(f.err) /\ UNCHANGED <<result, stages>>
           ELSE IF ~u.ok
           THEN Catch(u.err) /\ stages' = Append(stages, "parse") /\ UNCHANGED result
           ELSE /\ result' = u.result
                /\ stages' = Append(stages, "parse")
                /\ logMessage(hasLogger, emitted, sink, "info",
                              <<"Successfully fetched usage data">>, "returnOk")
                /\ UNCHANGED caught
    /\ UNCHANGED <<world, authSource, hasLogger, sinkFailed, auth, apiUrl, requests,
                   output, fileChecked, fileRead, prev>>

\* execute() returns the rendered usage.
ReturnOk ==
    /\ pc = "returnOk" /\ ~sinkPending
    /\ output' = formatMarkdown(result)
    /\ stages' = Append(stages, "render")
    /\ pc' = "done"
    /\ UNCHANGED <<world, upstream, authSource, hasLogger, sinkPending, sinkFailed, emitted,
                   sink, auth, apiUrl, requests, result, caught, fileChecked, fileRead, prev>>

\* execute() returns the error text.
ReturnErr ==
    /\ pc = "returnErr" /\ ~sinkPending
    /\ output' = ErrorText(ErrorMessage(caught))
    /\ pc' = "done"
    /\ UNCHANGED <<world, upstream, authSource, hasLogger, sinkPending, sinkFailed, emitted,
                   sink, auth, apiUrl, requests, result, caught, stages, fileChecked,
                   fileRead, prev>>

\* The steps the runtime takes on its own once they are enabled.
Step ==
    \/ GetAuthToken
    \/ ResolveEnv
    \/ ResolveFile
    \/ FetchUsageData
    \/ Request
    \/ ReturnOk
    \/ ReturnErr

Next ==
    \/ \E source \in AuthSources, lg \in BOOLEAN : Execute(source, lg)
    \/ Step
    \/ \E resp \in Answers : HttpComplete(resp)
    \/ \E outcome \in {"resolved", "rejected"} : SinkSettle(outcome)

Spec == Init /\ [][Next]_vars

\* The runtime resumes an invocation whose await settled, and the upstream
\* request ends; nothing makes the logging collaborator answer.
FairSpec ==
    /\ Spec
    /\ WF_vars(Step)
    /\ WF_vars(\E resp \in Answers : HttpComplete(resp))

\* ----------------------------------------------------------------- claims

Done == pc = "done"

\* getAuthToken has run (to a record or to a throw).
Resolved == Len(stages) >= 1

Failed == caught # NoError

NoEnvToken == ~Truthy(envToken)

BothPresent == authFile.json = "object" /\ hasEnterprise(authFile) /\ hasPublic(authFile)

OnePresent ==
    /\ authFile.json = "object"
    /\ hasEnterprise(authFile) # hasPublic(authFile)

Levels(log) == {log[i].level : i \in 1..Len(log)}

StageOrder == <<"resolve", "build", "fetch", "parse", "render">>

\* C1: with a non-empty GITHUB_TOKEN the resolver returns that token with no
\* organization host and not as the organizational variant, whatever the
\* credential file and the preference are, the request goes to the public
\* endpoint with that token, and the credential file is neither checked for
\* existence nor read at any point of the invocation.
C1_EnvTokenWins ==
    Truthy(envToken) =>
        /\ ~fileChecked /\ ~fileRead
        /\ Resolved =>
             /\ auth.token = envToken
             /\ auth.enterpriseUrl = Undefined
             /\ auth.source = "env"
        /\ requests # <<>> =>
             /\ apiUrl = PublicApiUrl
             /\ requests[1].authorization = <<"Bearer ", envToken>>

C1_Witness ==
    /\ Done /\ ~Failed
    /\ Truthy(envToken)
    /\ BothPresent
    /\ Truthy(authFile.enterprise.enterpriseUrl)
    /\ authSource = "enterprise"

\* C2: without an environment token, when exactly one of the two entries of
\* the credential file is present (it exists and its access secret is
\* non-empty), the resolver returns that entry's secret and variant whatever
\* the preference is.
C2_OnlyEntrySelected ==
    (Resolved /\ NoEnvToken /\ OnePresent) =>
        IF hasEnterprise(authFile)
        THEN auth.source = "enterprise" /\ auth.token = authFile.enterprise.access
        ELSE auth.source = "public" /\ auth.token = authFile.public.access

C2_Witness ==
    /\ Done
    /\ NoEnvToken /\ OnePresent
    /\ hasEnterprise(authFile)
    /\ authFile.public.present /\ authFile.public.access = ""
    /\ authSource = "public"
    /\ auth.token = EnterpriseSecret

\* C3: without an environment token and with both entries present, the
\* resolver returns the organizational entry exactly when the preference is
\* organizational, and the standard entry otherwise.
C3_PreferenceDecidesWhenBoth ==
    (Resolved /\ NoEnvToken /\ BothPresent) =>
        IF authSource = "enterprise"
        THEN auth.source = "enterprise" /\ auth.token = authFile.enterprise.access
        ELSE auth.source = "public" /\ auth.token = authFile.public.access

C3_Witness ==
    /\ Done
    /\ NoEnvToken /\ BothPresent
    /\ authSource = Undefined
    /\ auth.token = PublicSecret

\* C4: every thrown value ends in the catch block of execute(): control goes
\* nowhere but to the error return, the invocation returns one text, the
\* header "Copilot Usage Error" and "Error: " with the message of the Error
\* or the string form of any other value, an error-level logMessage call
\* is the last one made before the return (and reaches the collaborator when
\* there is one); an invocation that did not fail logs no error-level event.
C4_FailuresRendered ==
    /\ Failed => pc \in {"returnErr", "done"}
    /\ (Failed /\ pc \in {"returnErr", "done"}) =>
         /\ emitted[Len(emitted)].level = "error"
         /\ hasLogger => sink[Len(sink)].level = "error"
    /\ (Done /\ Failed) =>
         output = <<"# Copilot Usage Error", NL, NL, "Error: ">>
                  \o (IF caught.isError THEN caught.message ELSE caught.str)
    /\ Done => output # <<>>
    /\ ~Failed => "error" \notin Levels(emitted) /\ "error" \notin Levels(sink)

C4_Witness ==
    /\ Done /\ Failed
    /\ ~caught.isError
    /\ hasLogger

\* C5: the stages are entered in the order resolve, build, fetch, parse,
\* render and a failure ends the chain: a request is issued only after the
\* credential was resolved and the endpoint built, never when building the
\* endpoint throws, at most once per invocation, and nothing is rendered
\* as a success after a failure.
C5_StagesInOrder ==
    /\ Len(stages) <= Len(StageOrder)
    /\ stages = SubSeq(StageOrder, 1, Len(stages))
    /\ Len(requests) <= 1
    /\ requests # <<>> <=> (Len(stages) >= 3 /\ stages[3] = "fetch")
    /\ requests # <<>> => auth # NoAuth /\ apiUrl # <<>> /\ ~ApiUrlThrows(auth.enterpriseUrl)
    /\ Failed => (Len(stages) <= 4 /\ result = NoResult)
    /\ (Done /\ Failed) => output[1] = "# Copilot Usage Error"

C5_Witness ==
    /\ Done /\ Failed
    /\ Len(requests) = 1
    /\ upstream.kind = "response" /\ upstream.status = 401

\* C6: without an environment token, a missing credential file yields the
\* "Authentication not found" error text, and a file that exists and parses
\* but holds neither entry yields the "not found in auth.json" error text.
C6_AuthNotFound ==
    (Done /\ NoEnvToken) =>
        /\ ~authFile.exists => output = ErrorText(MsgAuthMissing)
        /\ (authFile.exists /\ authFile.json # "invalid"
            /\ ~hasEnterprise(authFile) /\ ~hasPublic(authFile)) =>
               output = ErrorText(MsgAuthNotConfigured)

\* C7: an invocation returns the same text, with the same credential,
\* endpoint and request, as the invocation with the same environment,
\* credential file, preference and upstream answer that ran without a
\* logging collaborator, whether its own collaborator answered or failed.
C7_LoggingNeverChangesResult ==
    (Done /\ prev.set) =>
        /\ output = prev.output
        /\ auth = prev.auth
        /\ apiUrl = prev.apiUrl
        /\ requests = prev.requests

C7_Witness ==
    /\ Done /\ prev.set
    /\ hasLogger /\ sinkFailed
    /\ ~Failed

\* C8: an invocation that started eventually returns, although the logging
\* collaborator need never answer.
C8_EventuallyReturns == (pc = "getAuthToken") ~> (pc = "done")

\* The upstream answered with a premium-interactions quota marked unlimited.
UnlimitedAnswer ==
    /\ upstream.kind = "response"
    /\ upstream.status = 200
    /\ upstream.body.json = "object" /\ upstream.body.hasPlan
    /\ upstream.body.snapshots = "premium"
    /\ upstream.body.quota.unlimited

\* C9 as stated: for an unlimited quota the returned text is exactly two
\* lines, the second literally "Premium requests: unlimited".
C9_TwoLines ==
    (Done /\ UnlimitedAnswer) =>
        /\ Len(Lines(output)) = 2
        /\ Lines(output)[2] = <<"Premium requests: unlimited">>

\* C9 as amended: for an unlimited quota, whatever its numeric fields hold,
\* the returned text is the header naming the plan, one empty line, and the
\* line "Premium requests: unlimited", and nothing else.
C9_UnlimitedRendering ==
    (Done /\ UnlimitedAnswer) =>
        Lines(output) = << <<"# Copilot ">> \o capitalizePlanName(upstream.body.plan)
                              \o <<" Usage">>,
                           <<>>,
                           <<"Premium requests: unlimited">> >>

C9_Witness ==
    /\ Done /\ UnlimitedAnswer
    /\ upstream.body.quota.entitlement = MaxCount
    /\ upstream.body.quota.remaining = 0
    /\ upstream.body.quota.percent_remaining = 2500
    /\ upstream.body.plan = <<"i", "_", "p">>

\* C10: a resolver result that is not the organizational variant carries no
\* organization host, and its request goes to the public endpoint.
C10_HostOnlyForOrganizational ==
    (Resolved /\ auth # NoAuth /\ auth.source # "enterprise") =>
        /\ auth.enterpriseUrl = Undefined
        /\ requests # <<>> => apiUrl = PublicApiUrl

====
